---------------------------- MODULE Spec2Model ----------------------------
(***************************************************************************)
(* A model of run.py: the command-line script that validates a date range, *)
(* asks the Wikimedia "top pageviews" API once per day of the range,        *)
(* aggregates the most viewed articles and renders a chart.                 *)
(*                                                                         *)
(* A string is the sequence of the code points of its characters (ord):    *)
(* "2024" is <<50, 48, 50, 52>>.  A calendar date is                       *)
(* its proleptic Gregorian ordinal (datetime.date.toordinal), so that date *)
(* comparison is integer comparison and (a - b).days is integer            *)
(* subtraction.  An article title is a natural number whose order stands   *)
(* for the sort order of the titles.                                       *)
(***************************************************************************)
EXTENDS Integers, Sequences, FiniteSets

VARIABLES
    start,          \* args.start, as typed on the command line
    end,            \* args.end
    current_date,   \* datetime.now().date()
    api,            \* the server: date -> response; a date outside answers 404
    pc,             \* where main is
    error_msg,      \* main's error_msg (validate_dates' return value)
    dates,          \* process_data's dates
    idx,            \* position of the for loop in dates
    requests,       \* the dates of the HTTP requests issued so far
    articles,       \* process_data's articles
    warnings,       \* lines written to stderr
    stdout,         \* lines printed
    df_top,         \* process_data's first return value
    metrics,        \* process_data's second return value
    png             \* top_articles.png

vars == <<start, end, current_date, api, pc, error_msg, dates, idx, requests,
          articles, warnings, stdout, df_top, metrics, png>>

(***************************************************************************)
(* Program constants.                                                      *)
(***************************************************************************)
TOP_ARTICLES_COUNT == 20

MAX_DAYS_RANGE == 365

(***************************************************************************)
(* datetime.date: ordinals.                                                *)
(***************************************************************************)
IsLeap(y) == (y % 4 = 0) /\ ((y % 100 # 0) \/ (y % 400 = 0))

DaysInMonth(y, m) ==
    IF m = 2 THEN (IF IsLeap(y) THEN 29 ELSE 28)
    ELSE IF m \in {4, 6, 9, 11} THEN 30 ELSE 31

DaysBeforeYear(y) ==
    (y - 1) * 365 + ((y - 1) \div 4) - ((y - 1) \div 100) + ((y - 1) \div 400)

RECURSIVE DaysBeforeMonth(_, _)
DaysBeforeMonth(y, m) ==
    IF m = 1 THEN 0 ELSE DaysBeforeMonth(y, m - 1) + DaysInMonth(y, m - 1)

Ord(y, m, d) == DaysBeforeYear(y) + DaysBeforeMonth(y, m) + d

API_START_DATE == Ord(2015, 7, 1)

(***************************************************************************)
(* datetime.strptime(s, '%Y%m%d').  The format compiles to the regular     *)
(* expression                                                              *)
(*   (?P<Y>\d\d\d\d)(?P<m>1[0-2]|0[1-9]|[1-9])                             *)
(*   (?P<d>3[0-1]|[1-2]\d|0[1-9]|[1-9]| [1-9])                             *)
(* which is matched at the start of the string (alternatives in order,     *)
(* backtracking until the whole expression matches); text left after the   *)
(* match, and a day the month does not have, raise ValueError.  The        *)
(* pattern is a str pattern: \d matches every Unicode decimal digit (660   *)
(* code points, ten consecutive ones for each of 66 scripts) and int()     *)
(* reads it, while the classes [0-2], [1-9], ... hold ASCII digits only.   *)
(***************************************************************************)
\* The code point of an ASCII character of the model's strings.
Chr(c) ==
    CASE c = "0" -> 48 [] c = "1" -> 49 [] c = "2" -> 50 [] c = "3" -> 51
      [] c = "4" -> 52 [] c = "5" -> 53 [] c = "6" -> 54 [] c = "7" -> 55
      [] c = "8" -> 56 [] c = "9" -> 57 [] c = " " -> 32 [] c = "-" -> 45

\* The code points of the digit zero of every script (DIGIT ZERO,
\* ARABIC-INDIC DIGIT ZERO, ..., FULLWIDTH DIGIT ZERO, ...); the digits one
\* to nine of a script follow its zero.
DigitZeros ==
    {
      48, 1632, 1776, 1984, 2406, 2534, 2662, 2790, 2918, 3046, 3174,
      3302, 3430, 3558, 3664, 3792, 3872, 4160, 4240, 6112, 6160, 6470,
      6608, 6784, 6800, 6992, 7088, 7232, 7248, 42528, 43216, 43264,
      43472, 43504, 43600, 44016, 65296, 66720, 68912, 69734, 69872,
      69942, 70096, 70384, 70736, 70864, 71248, 71360, 71472, 71904,
      72016, 72784, 73040, 73120, 92768, 92864, 93008, 120782, 120792,
      120802, 120812, 120822, 123200, 123632, 125264, 130032 }

\* The characters [0-9] matches.
AsciiDigit == Chr("0")..Chr("9")

\* The characters \d matches.
Digit == UNION {z..(z + 9) : z \in DigitZeros}

\* The characters [1-9] matches.
NonZero == AsciiDigit \ {Chr("0")}

\* int(c) of one decimal digit (0 for the space that may lead the day).
DigitVal(c) ==
    IF c \in Digit
    THEN c - (CHOOSE z \in DigitZeros : c \in z..(z + 9))
    ELSE 0

\* s[i], or -1 past the end of s.
At(s, i) == IF i \in 1..Len(s) THEN s[i] ELSE -1

\* The lengths of the month alternatives that match at position 5, in order.
MonthAlts(s) ==
    (IF \/ (At(s, 5) = Chr("1") /\ At(s, 6) \in {Chr("0"), Chr("1"), Chr("2")})
        \/ (At(s, 5) = Chr("0") /\ At(s, 6) \in NonZero)
     THEN <<2>> ELSE <<>>)
    \o (IF At(s, 5) \in NonZero THEN <<1>> ELSE <<>>)

\* The length of the first day alternative that matches at position p, or 0.
DayLen(s, p) ==
    IF At(s, p) = Chr("3") /\ At(s, p + 1) \in {Chr("0"), Chr("1")} THEN 2
    ELSE IF At(s, p) \in {Chr("1"), Chr("2")} /\ At(s, p + 1) \in Digit THEN 2
    ELSE IF At(s, p) = Chr("0") /\ At(s, p + 1) \in NonZero THEN 2
    ELSE IF At(s, p) \in NonZero THEN 1
    ELSE IF At(s, p) = Chr(" ") /\ At(s, p + 1) \in NonZero THEN 2
    ELSE 0

\* The number a run of characters reads as (int() of the group; the day
\* group may start with a space).
RECURSIVE Num(_, _, _)
Num(s, from, to) ==
    IF to < from THEN 0 ELSE 10 * Num(s, from, to - 1) + DigitVal(s[to])

ValueError == [err |-> TRUE, ord |-> 0]

strptime(s) ==
    IF ~(Len(s) >= 4 /\ \A i \in 1..4 : s[i] \in Digit) THEN ValueError
    ELSE
      LET alts  == MonthAlts(s)
          fits  == {k \in DOMAIN alts : DayLen(s, 5 + alts[k]) > 0}
      IN  IF fits = {} THEN ValueError
          ELSE
            LET k    == CHOOSE j \in fits : \A j2 \in fits : j <= j2
                mlen == alts[k]
                dlen == DayLen(s, 5 + mlen)
                y    == Num(s, 1, 4)
                m    == Num(s, 5, 4 + mlen)
                d    == Num(s, 5 + mlen, 4 + mlen + dlen)
            IN  IF 4 + mlen + dlen # Len(s) THEN ValueError
                ELSE IF y < 1 \/ d > DaysInMonth(y, m) THEN ValueError
                ELSE [err |-> FALSE, ord |-> Ord(y, m, d)]

(***************************************************************************)
(* validate_dates                                                          *)
(***************************************************************************)
None == "None"

MsgFormat == "Error: Invalid date format. Use YYYYMMDD"
MsgToday  == "Error: Dates must be strictly before {current_date} (no today or future dates)"
MsgOrder  == "Error: End date must be > start date"
MsgApi    == "Error: Dates must be >= {API_START_DATE.date()}"
MsgRange  == "Error: Date range must be <= {MAX_DAYS_RANGE} days"

\* validate_dates with the range rule off by one day.
validate_dates_RangeOffByOne(start_str, end_str, today) ==
    LET s == strptime(start_str)
        e == strptime(end_str)
    IN  IF s.err \/ e.err THEN MsgFormat
        ELSE IF s.ord >= today \/ e.ord >= today THEN MsgToday
        ELSE IF e.ord <= s.ord THEN MsgOrder
        ELSE IF s.ord < API_START_DATE THEN MsgApi
        ELSE IF e.ord - s.ord > MAX_DAYS_RANGE + 1 THEN MsgRange
        ELSE None

validate_dates(start_str, end_str, today) ==
    LET s == strptime(start_str)
        e == strptime(end_str)
    IN  IF s.err \/ e.err THEN MsgFormat
        ELSE IF s.ord >= today \/ e.ord >= today THEN MsgToday
        ELSE IF e.ord <= s.ord THEN MsgOrder
        ELSE IF s.ord < API_START_DATE THEN MsgApi
        ELSE IF e.ord - s.ord > MAX_DAYS_RANGE THEN MsgRange
        ELSE None


(***************************************************************************)
(* The server.  A response is what requests.get(url, timeout=10) ends      *)
(* with: net is "ok" when an HTTP answer arrived, else the exception       *)
(* raised; body says what the answer's text holds:                         *)
(*   "articles"       {"items": [{"articles": [...]}]}, the rows in        *)
(*                    articles                                             *)
(*   "not_json"       text that is not JSON (also the empty body)          *)
(*   "no_items"       JSON without items[0]['articles']                    *)
(*   "null_articles"  {"items": [{"articles": null}]}                      *)
(***************************************************************************)
Response(net, status, body, rows) ==
    [net |-> net, status |-> status, body |-> body, articles |-> rows]

NotFound == Response("ok", 404, "not_json", <<>>)

HttpGet(date) == IF date \in DOMAIN api THEN api[date] ELSE NotFound

(***************************************************************************)
(* fetch_daily_articles: the value returned (none: Python's None, else the *)
(* list) and the warning lines written to stderr.                          *)
(***************************************************************************)
Returned(rows) == [none |-> FALSE, list |-> rows]

ReturnedNone == [none |-> TRUE, list |-> <<>>]

Warning(kind, date) == <<[kind |-> kind, date |-> date]>>

fetch_daily_articles(date, response) ==
    IF response.net = "timeout"
    THEN [ret |-> Returned(<<>>), warning |-> Warning("Timeout", date)]
    ELSE IF response.net = "connection_error"
    THEN [ret |-> Returned(<<>>), warning |-> Warning("Connection error", date)]
    ELSE IF response.status = 404
    THEN [ret |-> Returned(<<>>), warning |-> <<>>]
    ELSE IF response.status >= 400 /\ response.status < 600
    THEN [ret |-> Returned(<<>>), warning |-> Warning("Unexpected error", date)]
    ELSE IF response.body \in {"not_json", "no_items"}
    THEN [ret |-> Returned(<<>>), warning |-> Warning("Unexpected error", date)]
    ELSE IF response.body = "null_articles"
    THEN [ret |-> ReturnedNone, warning |-> <<>>]
    ELSE [ret |-> Returned(response.articles), warning |-> <<>>]

(***************************************************************************)
(* process_data                                                            *)
(***************************************************************************)
\* pandas reads an eight-digit string as YYYYMMDD.
Timestamp(s) == Ord(Num(s, 1, 4), Num(s, 5, 6), Num(s, 7, 8))

\* pd.date_range(start_date, end_date, freq='D'): both ends included.
date_range(start_date, end_date) ==
    [i \in 1..(Timestamp(end_date) - Timestamp(start_date) + 1) |->
        Timestamp(start_date) + i - 1]

\* article['date'] = date, for each article of one day's list.
Dated(list, date) ==
    [i \in 1..Len(list) |->
        [article |-> list[i].article, views |-> list[i].views, date |-> date]]

ArticleNames(rows) == {rows[i].article : i \in DOMAIN rows}

RowDates(rows) == {rows[i].date : i \in DOMAIN rows}

\* df.groupby('article')['views'].sum(), for one article (rows 1..i).
RECURSIVE ViewsSum(_, _, _)
ViewsSum(rows, a, i) ==
    IF i = 0 THEN 0
    ELSE ViewsSum(rows, a, i - 1)
         + (IF rows[i].article = a THEN rows[i].views ELSE 0)

RECURSIVE ViewsTotal(_, _)
ViewsTotal(rows, i) ==
    IF i = 0 THEN 0 ELSE ViewsTotal(rows, i - 1) + rows[i].views

ViewsMax(rows) ==
    CHOOSE v \in {rows[i].views : i \in DOMAIN rows} :
        \A i \in DOMAIN rows : rows[i].views <= v

\* TopArticles ranking each article by its largest daily views, as the
\* chart's column order does, instead of its summed views.
TopArticles_ByMax(rows) ==
    LET names == ArticleNames(rows)
        max   == [a \in names |->
                    CHOOSE v \in {rows[i].views : i \in {j \in DOMAIN rows : rows[j].article = a}} :
                        \A i \in DOMAIN rows :
                            rows[i].article = a => rows[i].views <= v]
        before(b, a) == max[b] > max[a] \/ (max[b] = max[a] /\ b < a)
    IN  {a \in names :
            Cardinality({b \in names : before(b, a)}) < TOP_ARTICLES_COUNT}

\* .nlargest(TOP_ARTICLES_COUNT).index of the per-article sums: the groups
\* are in title order, and of equal sums the first in that order is taken.
TopArticles(rows) ==
    LET names == ArticleNames(rows)
        sum   == [a \in names |-> ViewsSum(rows, a, Len(rows))]
        before(b, a) == sum[b] > sum[a] \/ (sum[b] = sum[a] /\ b < a)
    IN  {a \in names :
            Cardinality({b \in names : before(b, a)}) < TOP_ARTICLES_COUNT}

\* df[df['article'].isin(top_articles)]
IsIn(rows, top_articles) ==
    LET keep(r) == r.article \in top_articles IN SelectSeq(rows, keep)

NoFrame == [none |-> TRUE, rows |-> <<>>]

NoMetrics ==
    [none |-> TRUE, max_views |-> 0, total_views |-> 0, days |-> 0,
     unique_articles |-> 0]

\* (df['views'].max(), df.groupby('date')['views'].sum().mean(),
\*  df['article'].nunique()); the mean is total_views / days.
Metrics(rows) ==
    [none |-> FALSE, max_views |-> ViewsMax(rows),
     total_views |-> ViewsTotal(rows, Len(rows)),
     days |-> Cardinality(RowDates(rows)),
     unique_articles |-> Cardinality(ArticleNames(rows))]

(***************************************************************************)
(* create_visualization: what the chart is drawn from.                     *)
(***************************************************************************)
NoFile ==
    [written |-> FALSE, n_articles |-> 0, n_cols |-> 0, min_date |-> 0,
     max_date |-> 0, date_format |-> "", locator |-> "", interval |-> 0]

Min2(a, b) == IF a <= b THEN a ELSE b

Max2(a, b) == IF a >= b THEN a ELSE b

Chart(rows) ==
    LET ds         == RowDates(rows)
        min_date   == CHOOSE d \in ds : \A d2 \in ds : d <= d2
        max_date   == CHOOSE d \in ds : \A d2 \in ds : d >= d2
        n_articles == Cardinality(ArticleNames(rows))
        n_days     == max_date - min_date + 1
    IN  [written |-> TRUE, n_articles |-> n_articles,
         n_cols |-> Min2(5, n_articles),
         min_date |-> min_date, max_date |-> max_date,
         date_format |-> IF n_days <= 30 THEN "%m/%d"
                         ELSE IF n_days <= 90 THEN "%b %d" ELSE "%b %Y",
         locator |-> IF n_days <= 90 THEN "DayLocator" ELSE "MonthLocator",
         interval |-> IF n_days <= 7 THEN 1
                      ELSE IF n_days <= 30 THEN 5
                      ELSE IF n_days <= 90 THEN 14
                      ELSE Max2(1, (n_days \div 30) \div 4)]

(***************************************************************************)
(* main, step by step.                                                     *)
(***************************************************************************)
\* MainValidate without the return: the message is printed and main goes on.
MainValidate_NoReturn ==
    /\ pc = "main"
    /\ error_msg' = validate_dates(start, end, current_date)
    /\ IF error_msg' # None
       THEN stdout' = Append(stdout, error_msg')
       ELSE stdout' = stdout
    /\ pc' = "process_data"
    /\ UNCHANGED <<start, end, current_date, api, dates, idx, requests,
                   articles, warnings, df_top, metrics, png>>

\* main: validate_dates, and the return on an error message.
MainValidate ==
    /\ pc = "main"
    /\ error_msg' = validate_dates(start, end, current_date)
    /\ IF error_msg' # None
       THEN stdout' = Append(stdout, error_msg') /\ pc' = "done"
       ELSE stdout' = stdout /\ pc' = "process_data"
    /\ UNCHANGED <<start, end, current_date, api, dates, idx, requests,
                   articles, warnings, df_top, metrics, png>>

\* process_data: the date range and the empty list.
ProcessStart ==
    /\ pc = "process_data"
    /\ dates' = date_range(start, end)
    /\ idx' = 1
    /\ articles' = <<>>
    /\ pc' = "loop"
    /\ UNCHANGED <<start, end, current_date, api, error_msg, requests,
                   warnings, stdout, df_top, metrics, png>>

\* One turn of the loop: the day's request, the warning if any, the rows.
\* Iterating over None raises TypeError, which nothing catches.
ProcessDay ==
    /\ pc = "loop"
    /\ idx <= Len(dates)
    /\ LET date == dates[idx]
           r    == fetch_daily_articles(date, HttpGet(date))
       IN  /\ requests' = Append(requests, date)
           /\ warnings' = warnings \o r.warning
           /\ IF r.ret.none
              THEN pc' = "crashed" /\ UNCHANGED <<idx, articles>>
              ELSE /\ articles' = articles \o Dated(r.ret.list, date)
                   /\ idx' = idx + 1
                   /\ pc' = pc
    /\ UNCHANGED <<start, end, current_date, api, error_msg, dates, stdout,
                   df_top, metrics, png>>

\* The end of process_data and main's test of what it returned.
FinishProcess ==
    /\ pc = "loop"
    /\ idx > Len(dates)
    /\ IF articles = <<>>
       THEN /\ df_top' = NoFrame
            /\ metrics' = NoMetrics
            /\ stdout' = Append(stdout, "No data found for the specified date range")
            /\ pc' = "done"
       ELSE /\ df_top' = [none |-> FALSE,
                          rows |-> IsIn(articles, TopArticles(articles))]
            /\ metrics' = Metrics(articles)
            /\ stdout' = stdout
            /\ pc' = "create_visualization"
    /\ UNCHANGED <<start, end, current_date, api, error_msg, dates, idx,
                   requests, articles, warnings, png>>

CreateVisualization ==
    /\ pc = "create_visualization"
    /\ png' = Chart(df_top.rows)
    /\ stdout' = Append(stdout, "Visualization saved to top_articles.png")
    /\ pc' = "done"
    /\ UNCHANGED <<start, end, current_date, api, error_msg, dates, idx,
                   requests, articles, warnings, df_top, metrics>>

Next ==
    \/ MainValidate
    \/ ProcessStart
    \/ ProcessDay
    \/ FinishProcess
    \/ CreateVisualization

(***************************************************************************)
(* Inputs.                                                                 *)
(***************************************************************************)
\* How many articles more than TOP_ARTICLES_COUNT one day's list may hold.
Extra == 2

\* The views of every article of a "flat" list.
FlatViews == 7

\* One day's list: the articles lo .. lo + cnt - 1, their views rising with
\* the title ("asc"), falling ("desc") or all equal ("flat").
Block(lo, cnt, pat) ==
    [i \in 1..cnt |->
        [article |-> lo + i - 1,
         views |-> IF pat = "asc" THEN lo + i - 1
                   ELSE IF pat = "desc"
                        THEN TOP_ARTICLES_COUNT + Extra + 2 - (lo + i - 1)
                   ELSE FlatViews]]

Ok(rows) == Response("ok", 200, "articles", rows)

Failures ==
    { NotFound,
      Response("timeout", 0, "not_json", <<>>),
      Response("connection_error", 0, "not_json", <<>>),
      Response("ok", 500, "not_json", <<>>),
      Response("ok", 200, "not_json", <<>>),
      Response("ok", 200, "no_items", <<>>),
      Response("ok", 200, "null_articles", <<>>) }

RunResponses ==
    Failures \cup
    { Ok(<<>>), Ok(Block(1, 1, "flat")), Ok(Block(1, 2, "desc")),
      Response("ok", 600, "articles", Block(2, 1, "flat")) }

TopResponses ==
    {Ok(<<>>)} \cup
    { Ok(Block(lo, cnt, pat)) :
        lo \in {1, 2},
        cnt \in {1, TOP_ARTICLES_COUNT - 1, TOP_ARTICLES_COUNT,
                 TOP_ARTICLES_COUNT + 1, TOP_ARTICLES_COUNT + Extra},
        pat \in {"asc", "desc", "flat"} }

\* The code points of a string of ASCII characters.
Ascii(s) == [i \in DOMAIN s |-> Chr(s[i])]

s20240228 == Ascii(<<"2", "0", "2", "4", "0", "2", "2", "8">>)
s20240229 == Ascii(<<"2", "0", "2", "4", "0", "2", "2", "9">>)
s20240301 == Ascii(<<"2", "0", "2", "4", "0", "3", "0", "1">>)
s20240302 == Ascii(<<"2", "0", "2", "4", "0", "3", "0", "2">>)
s20240230 == Ascii(<<"2", "0", "2", "4", "0", "2", "3", "0">>)
s20230101 == Ascii(<<"2", "0", "2", "3", "0", "1", "0", "1">>)
s20230301 == Ascii(<<"2", "0", "2", "3", "0", "3", "0", "1">>)
s20230302 == Ascii(<<"2", "0", "2", "3", "0", "3", "0", "2">>)
s20150630 == Ascii(<<"2", "0", "1", "5", "0", "6", "3", "0">>)
s20150701 == Ascii(<<"2", "0", "1", "5", "0", "7", "0", "1">>)

\* Strings that are not eight digits.
s2024228 == Ascii(<<"2", "0", "2", "4", "2", "2", "8">>)
s202431 == Ascii(<<"2", "0", "2", "4", "3", "1">>)
s2024022_9 == Ascii(<<"2", "0", "2", "4", "0", "2", " ", "9">>)
s2024_dash == Ascii(<<"2", "0", "2", "4", "-", "0", "2", "-", "2", "8">>)
s202402281 == Ascii(<<"2", "0", "2", "4", "0", "2", "2", "8", "1">>)
s20241301 == Ascii(<<"2", "0", "2", "4", "1", "3", "0", "1">>)
sEmpty == <<>>

\* Eight decimal digits, not all of them ASCII: fullwidth, Arabic-Indic,
\* Devanagari, Extended Arabic-Indic and mathematical bold digits.
sFW2024_0228 ==
    <<65298, 65296, 65298, 65300>> \o Ascii(<<"0", "2", "2", "8">>)
s2024022_FW9 ==
    Ascii(<<"2", "0", "2", "4", "0", "2", "2">>) \o <<65305>>
s202402_AI28 ==
    Ascii(<<"2", "0", "2", "4", "0", "2">>) \o <<1634>> \o Ascii(<<"8">>)
sAI2024_0229 ==
    <<1634, 1632, 1634, 1636>> \o Ascii(<<"0", "2", "2", "9">>)
sDV2024_0228 ==
    <<2408, 2406, 2408, 2410>> \o Ascii(<<"0", "2", "2", "8">>)
s2024022_EA9 ==
    Ascii(<<"2", "0", "2", "4", "0", "2", "2">>) \o <<1785>>
s2024012_MB9 ==
    Ascii(<<"2", "0", "2", "4", "0", "1", "2">>) \o <<120791>>

RunStrings ==
    {s20240228, s20240229, s20240301, s20240302, s20240230, s20230101,
     s20150630}

LongStrings == {s20230301, s20230302, s20240229, s20240301, s20240302}

ValidateStrings ==
    RunStrings \cup LongStrings \cup
    {s20150701, s2024228, s202431, s2024022_9, s2024_dash, s202402281,
     s20241301, sEmpty, sFW2024_0228, s2024022_FW9, s202402_AI28,
     sAI2024_0229, sDV2024_0228, s2024022_EA9, s2024012_MB9}

InitRest ==
    /\ pc = "main"
    /\ error_msg = None
    /\ dates = <<>>
    /\ idx = 0
    /\ requests = <<>>
    /\ articles = <<>>
    /\ warnings = <<>>
    /\ stdout = <<>>
    /\ df_top = NoFrame
    /\ metrics = NoMetrics
    /\ png = NoFile

\* Runs over a few days around 2024-02-29, against every kind of response.
\* The strings of whole runs are eight ASCII digits: process_data hands the
\* strings to pandas, whose reading of such a string is the date
\* validate_dates checked.  The other strings strptime accepts are inputs of
\* SpecValidate, which stops where validate_dates returns.
Init ==
    /\ start \in RunStrings
    /\ end \in RunStrings
    /\ current_date \in {Ord(2024, 3, 1), Ord(2024, 3, 2)}
    /\ api \in [{Ord(2024, 2, 28), Ord(2024, 2, 29), Ord(2024, 3, 1)} -> RunResponses]
    /\ InitRest

Spec == Init /\ [][Next]_vars

\* Runs over two days whose lists hold about TOP_ARTICLES_COUNT articles.
InitTop ==
    /\ start = s20240228
    /\ end \in {s20240228, s20240229}
    /\ current_date = Ord(2024, 3, 2)
    /\ api \in [{Ord(2024, 2, 28), Ord(2024, 2, 29)} -> TopResponses]
    /\ InitRest

SpecTop == InitTop /\ [][Next]_vars

\* Runs over about a year.
InitLong ==
    /\ start \in LongStrings
    /\ end \in LongStrings
    /\ current_date \in {Ord(2024, 3, 2), Ord(2024, 3, 3)}
    /\ api \in [{Ord(2023, 3, 2)} -> RunResponses]
    /\ InitRest

SpecLong == InitLong /\ [][Next]_vars

\* validate_dates alone, on strings of every shape.
InitValidate ==
    /\ start \in ValidateStrings
    /\ end \in ValidateStrings
    /\ current_date \in {Ord(2024, 3, 1), Ord(2024, 3, 2)}
    /\ api = [d \in {} |-> NotFound]
    /\ InitRest

NextValidate == MainValidate

SpecValidate == InitValidate /\ [][NextValidate]_vars

(***************************************************************************)
(* Properties.                                                             *)
(***************************************************************************)
Terminated == pc \in {"done", "crashed"}

\* validate_dates has returned None.
Accepted == pc # "main" /\ error_msg = None

\* What fetch_daily_articles returned for the i-th request.
Fetched(i) == fetch_daily_articles(requests[i], HttpGet(requests[i])).ret

\* The rows of the first i requests, each with its date.
RECURSIVE Collected(_)
Collected(i) ==
    IF i = 0 THEN <<>>
    ELSE Collected(i - 1) \o Dated(Fetched(i).list, requests[i])

\* A response that is neither the day's list nor a 404.
FailedOtherThan404(r) ==
    \/ r.net # "ok"
    \/ r.status \notin {200, 404}
    \/ r.status = 200 /\ r.body # "articles"

\* C1: process_data issues exactly one request for each day from start to
\* end, both included, in ascending order, whatever the earlier requests
\* ended with: the i-th request is for day start + i - 1, and a finished run
\* has issued (end - start).days + 1 of them.
C1_OneRequestPerDay ==
    Accepted =>
        /\ \A i \in DOMAIN requests : requests[i] = Timestamp(start) + i - 1
        /\ Terminated =>
              Len(requests) = Timestamp(end) - Timestamp(start) + 1

\* C2: a failed request is skipped and never aborts the run:
\* fetch_daily_articles returns a list for every day, the empty one for a
\* 404 and for every other failure (no answer, a status that is not 2xx, a
\* malformed body), the run never ends by an exception, a finished run has
\* requested every day of the range, and the rows collected are those of
\* all the days requested so far.
C2_FailuresAreSkipped ==
    /\ pc # "crashed"
    /\ \A i \in DOMAIN requests :
          /\ ~Fetched(i).none
          /\ (HttpGet(requests[i]).status = 404
               \/ FailedOtherThan404(HttpGet(requests[i])))
                => Fetched(i).list = <<>>
    /\ (Accepted /\ Terminated) => Len(requests) = Len(dates)
    /\ articles = Collected(Len(requests))

\* C3: when rows were fetched, df_top holds exactly the fetched rows of the
\* top TOP_ARTICLES_COUNT articles by summed views: TOP_ARTICLES_COUNT of
\* them, or all when fewer were fetched, and no article left out has a
\* larger sum than one kept.
C3_TopArticles ==
    (pc \in {"create_visualization", "done"} /\ Accepted) =>
        /\ articles # <<>> <=> ~df_top.none
        /\ ~df_top.none =>
              LET kept == ArticleNames(df_top.rows)
                  all  == ArticleNames(articles)
                  total(a) == ViewsSum(articles, a, Len(articles))
                  isKept(r) == r.article \in kept
              IN  /\ kept \subseteq all
                  /\ df_top.rows = SelectSeq(articles, isKept)
                  /\ Cardinality(kept)
                        = Min2(TOP_ARTICLES_COUNT, Cardinality(all))
                  /\ \A a \in kept : \A b \in all \ kept :
                        total(b) <= total(a)

\* A frame was cut to TOP_ARTICLES_COUNT articles, leaving out one with a
\* smaller sum than one kept.
C3_Witness ==
    /\ pc = "done"
    /\ ~df_top.none
    /\ Cardinality(ArticleNames(df_top.rows)) = TOP_ARTICLES_COUNT
    /\ \E a \in ArticleNames(df_top.rows) :
       \E b \in ArticleNames(articles) \ ArticleNames(df_top.rows) :
          ViewsSum(articles, b, Len(articles))
              < ViewsSum(articles, a, Len(articles))

\* C4: for an accepted date pair, the chart is written if and only if some
\* day's request returned at least one article; otherwise main prints that
\* no data was found and writes nothing; the chart has 1 to 5 columns.
C4_ChartIffData ==
    (Accepted /\ Terminated) =>
        LET data  == \E i \in DOMAIN requests :
                        ~Fetched(i).none /\ Fetched(i).list # <<>>
            empty == \A i \in DOMAIN requests :
                        ~Fetched(i).none /\ Fetched(i).list = <<>>
        IN  /\ png.written <=> data
            /\ empty =>
                  /\ stdout = <<"No data found for the specified date range">>
                  /\ ~png.written
            /\ png.written => png.n_cols \in 1..5

\* The strings that are a date written YYYYMMDD.
IsYYYYMMDD(s) ==
    /\ Len(s) = 8
    /\ \A i \in 1..8 : s[i] \in AsciiDigit
    /\ Num(s, 1, 4) >= 1
    /\ Num(s, 5, 6) \in 1..12
    /\ Num(s, 7, 8) \in 1..DaysInMonth(Num(s, 1, 4), Num(s, 5, 6))

\* C5: validate_dates returns None if and only if both strings are YYYYMMDD
\* dates with 2015-07-01 <= start < end < today and end - start <= 365
\* days; otherwise the message of the first rule violated, in the order
\* format, before today, end after start, API start, range.
C5_ValidateDates ==
    pc # "main" =>
        error_msg =
            IF ~(IsYYYYMMDD(start) /\ IsYYYYMMDD(end)) THEN MsgFormat
            ELSE IF Timestamp(start) >= current_date
                    \/ Timestamp(end) >= current_date THEN MsgToday
            ELSE IF Timestamp(end) <= Timestamp(start) THEN MsgOrder
            ELSE IF Timestamp(start) < Ord(2015, 7, 1) THEN MsgApi
            ELSE IF Timestamp(end) - Timestamp(start) > 365 THEN MsgRange
            ELSE None

\* C6, as claimed: an accepted run requests at most MAX_DAYS_RANGE days.
C6_AtMostMaxDaysRequests ==
    Accepted => Len(dates) <= MAX_DAYS_RANGE /\ Len(requests) <= MAX_DAYS_RANGE

\* C6, amended: in an accepted run end is at most MAX_DAYS_RANGE days after
\* start, and the run requests at most MAX_DAYS_RANGE + 1 days, both ends
\* of the range being requested.
C6_AtMostMaxDaysPlusOne ==
    Accepted =>
        /\ Timestamp(end) - Timestamp(start) <= MAX_DAYS_RANGE
        /\ Len(dates) <= MAX_DAYS_RANGE + 1
        /\ Len(requests) <= MAX_DAYS_RANGE + 1

\* A finished run that requested MAX_DAYS_RANGE + 1 days.
C6_Witness ==
    /\ pc = "done"
    /\ Accepted
    /\ Len(requests) = MAX_DAYS_RANGE + 1

\* C7: validation gates all network and file activity: a request or the
\* file exists only once validate_dates has returned None, and when it
\* returns a message main prints it and ends with no request and no file.
C7_ValidationGates ==
    LET msg == validate_dates(start, end, current_date)
    IN  /\ (requests # <<>> \/ png.written) => (Accepted /\ msg = None)
        /\ (pc # "main" /\ msg # None) =>
              /\ pc = "done"
              /\ stdout = <<msg>>
              /\ requests = <<>>
              /\ ~png.written
              /\ warnings = <<>>

\* A run rejected for its range, ended with the message printed.
C7_Witness ==
    /\ pc = "done"
    /\ error_msg = MsgRange
    /\ stdout = <<MsgRange>>
    /\ requests = <<>>

\* C8: a 404 and a success give no warning, every other failure gives
\* exactly one warning naming its date: the warnings of a run are, in
\* order, the dates whose request failed with something other than 404.
C8_WarningsCountFailures ==
    Accepted =>
        LET failed(i) == FailedOtherThan404(HttpGet(requests[i]))
            isFailed(d) == FailedOtherThan404(HttpGet(d))
        IN  /\ Len(warnings)
                 = Cardinality({i \in DOMAIN requests : failed(i)})
            /\ [i \in DOMAIN warnings |-> warnings[i].date]
                 = SelectSeq(requests, isFailed)

=============================================================================
